---- MODULE Spec2Model ----
(***************************************************************************)
(* State-machine model of stage_sync.py: the clone / sync-back protocol    *)
(* that moves commits between a work repository and a staging repository   *)
(* through temporary branches on a shared remote.                          *)
(*                                                                         *)
(* A branch name is a sequence of one-character strings.  A commit is the  *)
(* sequence of commit ids on its first-parent chain (the tool never makes  *)
(* a merge commit), so "a is an ancestor of b" is "a is a prefix of b".    *)
(* A ref table is a function whose DOMAIN is the set of existing names.    *)
(***************************************************************************)
EXTENDS Integers, Sequences, FiniteSets, TLC

(* ---------------------------------------------------------------- bounds *)
MaxCommits == 3
MaxTime == 1
MaxEdits == 1
MaxRuns == 2
MaxNameLen == 2

(* ------------------------------------------------------ program constants *)
DEFAULT_REMOTE == <<"o", "r", "i", "g", "i", "n">>
TEMP_BRANCH_PREFIX ==
    <<"s", "t", "a", "g", "i", "n", "g", "-", "s", "y", "n", "c">>

(* ------------------------------------------------------------ vocabulary *)
NoName == <<>>
NoCommit == <<>>
NoRefs == [n \in {} |-> NoCommit]
DetachedHead == <<"H", "E", "A", "D">>
Main == <<"m", "a", "i", "n">>
Dev == <<"d", "e", "v">>
Tmp == <<"t", "m", "p">>
StageRel == <<"p", "r", "o", "j", "x">>
OtherRel == <<"o", "t", "h", "e", "r">>
StagingIds == {StageRel, OtherRel}
Urls == {"url1", "url2"}

(* ------------------------------------------------------- commit ancestry *)
IsAncestor(a, b) ==
    /\ Len(a) <= Len(b)
    /\ SubSeq(b, 1, Len(a)) = a

(* ---------------------------------------------------------- branch naming *)
AsciiAlnum ==
    { "a", "b", "c", "d", "e", "f", "g", "h", "i", "j", "k", "l", "m",
      "n", "o", "p", "q", "r", "s", "t", "u", "v", "w", "x", "y", "z",
      "A", "B", "C", "D", "E", "F", "G", "H", "I", "J", "K", "L", "M",
      "N", "O", "P", "Q", "R", "S", "T", "U", "V", "W", "X", "Y", "Z",
      "0", "1", "2", "3", "4", "5", "6", "7", "8", "9" }
UnicodeAlnum == { "é" }
IsAlnum(ch) == ch \in AsciiAlnum \cup UnicodeAlnum

RECURSIVE LStrip(_)
LStrip(s) ==
    IF s # <<>> /\ Head(s) = "-" THEN LStrip(Tail(s)) ELSE s

RECURSIVE RStrip(_)
RStrip(s) ==
    IF s # <<>> /\ s[Len(s)] = "-" THEN RStrip(SubSeq(s, 1, Len(s) - 1)) ELSE s

(* str(Path(s)), line 188: pathlib drops empty and "." components and a     *)
(* trailing slash, keeps a root of one slash (two when the text starts with *)
(* exactly two) and renders the empty path as ".".                          *)
RECURSIVE Components(_)
Components(s) ==
    IF s = <<>> THEN <<>>
    ELSE IF Head(s) = "/" THEN Components(Tail(s))
    ELSE LET slashes == {i \in 1..Len(s) : s[i] = "/"}
             n == IF slashes = {} THEN Len(s) + 1
                  ELSE CHOOSE i \in slashes : \A j \in slashes : i <= j
             part == SubSeq(s, 1, n - 1)
             rest == SubSeq(s, n, Len(s))
         IN  IF part = <<".">> THEN Components(rest)
             ELSE <<part>> \o Components(rest)

RECURSIVE Join(_)
Join(parts) ==
    IF parts = <<>> THEN <<>>
    ELSE IF Len(parts) = 1 THEN parts[1]
    ELSE parts[1] \o <<"/">> \o Join(Tail(parts))

Root(s) ==
    LET lead == CHOOSE n \in 0..Len(s) :
                    /\ \A i \in 1..n : s[i] = "/"
                    /\ n < Len(s) => s[n + 1] # "/"
    IN  IF lead = 0 THEN <<>>
        ELSE IF lead = 2 THEN <<"/", "/">>
        ELSE <<"/">>

PathStr(s) ==
    LET text == Root(s) \o Join(Components(s))
    IN  IF text = <<>> THEN <<".">> ELSE text

sanitize_for_branch_NoStrip(component) ==
    LET safe == [i \in 1..Len(component) |->
                    IF IsAlnum(component[i]) \/ component[i] \in {"-", "_", "."}
                    THEN component[i] ELSE "-"]
    IN  IF safe # <<>> THEN safe
        ELSE <<"p", "r", "o", "j", "e", "c", "t">>

sanitize_for_branch(component) ==
    LET safe == [i \in 1..Len(component) |->
                    IF IsAlnum(component[i]) \/ component[i] \in {"-", "_", "."}
                    THEN component[i] ELSE "-"]
        sanitized == RStrip(LStrip(safe))
    IN  IF sanitized # <<>> THEN sanitized
        ELSE <<"p", "r", "o", "j", "e", "c", "t">>

DigitChar == <<"0", "1", "2", "3", "4", "5", "6", "7", "8", "9">>

RECURSIVE Decimal(_)
Decimal(n) ==
    IF n < 10 THEN <<DigitChar[n + 1]>>
    ELSE Decimal(n \div 10) \o <<DigitChar[(n % 10) + 1]>>

make_temp_branch_name(stage_rel, branch, clock) ==
    TEMP_BRANCH_PREFIX \o <<"/">> \o sanitize_for_branch(PathStr(stage_rel))
        \o <<"-">> \o sanitize_for_branch(branch) \o <<"-">> \o Decimal(clock)

(* ----------------------------------------------------------- ref tables *)
Has(refs, name) == name \in DOMAIN refs
SetRef(refs, name, commit) == (name :> commit) @@ refs
DelRef(refs, name) == [n \in DOMAIN refs \ {name} |-> refs[n]]

(* ------------------------------------------------------------------ state *)
VARIABLES
    remote,     \* remote[url]: branch table of the shared remote at that URL
    work,       \* the work repository
    stage,      \* the staging directory / repository
    registry,   \* persisted config["projects"]: staging id -> entry
    malformed,  \* the registry file exists but is not valid JSON
    now,        \* the last value time.time() returned
    nextId,     \* next fresh commit id
    edits,      \* number of operator edits made so far (bounded)
    runs,       \* number of invocations started so far (bounded)
    pc,         \* "idle" at the prompt, "done" when an invocation has exited
    inv,        \* arguments and locals of the last invocation
    exitCode,   \* exit status of the invocation (-1 while none has finished)
    pre,        \* snapshot of the state at the start of the invocation
    log,        \* git mutations and registry writes of the invocation
    naming      \* arguments and result of a call of make_temp_branch_name

vars == <<remote, work, stage, registry, malformed, now, nextId, edits, runs,
          pc, inv, exitCode, pre, log, naming>>

world == <<remote, work, stage, registry>>

NoStage ==
    [exists |-> FALSE, refs |-> NoRefs, track |-> NoRefs, head |-> NoName,
     dirty |-> FALSE, url |-> ""]

NoEntry ==
    [present |-> FALSE, work_name |-> NoName, base_branch |-> NoName,
     staging_branch |-> NoName, temp_branch |-> NoName, remote |-> "",
     branch |-> NoName, last_temp_branch |-> NoName]

OtherEntry ==
    [present |-> TRUE, work_name |-> OtherRel, base_branch |-> Main,
     staging_branch |-> Main, temp_branch |-> NoName, remote |-> "url2",
     branch |-> NoName, last_temp_branch |-> NoName]

NoInv ==
    [cmd |-> "none", force |-> FALSE, auto_checkout |-> FALSE,
     allow_dirty_stage |-> FALSE, allow_dirty_work |-> FALSE,
     arg_branch |-> NoName, arg_temp |-> NoName,
     config |-> [id \in StagingIds |-> NoEntry], entry |-> NoEntry,
     branch |-> NoName, remote_url |-> "",
     staging_branch |-> NoName, target_branch |-> NoName,
     temp_branch |-> NoName, first_temp |-> NoName,
     staging_remote_url |-> "", published |-> FALSE, created_at |-> NoCommit,
     err |-> "", at |-> "", fault |-> FALSE]

Snapshot == [remote |-> remote, work |-> work, stage |-> stage,
             registry |-> registry]

NoSnapshot ==
    [remote |-> [u \in Urls |-> NoRefs],
     work |-> [NoStage EXCEPT !.exists = TRUE],
     stage |-> NoStage,
     registry |-> [id \in StagingIds |-> NoEntry]]

(* HEAD of a repository: the commit of the checked-out branch, NoCommit when *)
(* HEAD is detached or the branch is unborn.                                 *)
HeadCommit(repo) ==
    IF Has(repo.refs, repo.head) THEN repo.refs[repo.head] ELSE NoCommit

NoNaming ==
    [staging_name |-> NoName, branch |-> NoName, stage_part |-> NoName,
     branch_part |-> NoName, name |-> NoName]

Event(op, who, ref, ok) == [op |-> op, who |-> who, ref |-> ref, ok |-> ok]

(* A temporary branch that an interrupted sync-back of an earlier staging   *)
(* repository (on branch tmp, at clock 0) left on the remote: the process   *)
(* was killed between the push at line 350 and the deletion at line 430.    *)
Leftover == make_temp_branch_name(StageRel, Tmp, 0)

(* Before the first invocation: a work repository on main at commit 1; the  *)
(* shared remote has no main yet, or has it at the same commit, or has it   *)
(* one commit ahead (commit 0, pushed by a collaborator) beside a leftover  *)
(* temporary branch.                                                        *)
Init ==
    /\ remote \in { [u \in Urls |-> IF u = "url1" THEN r ELSE NoRefs] :
                        r \in {NoRefs, SetRef(NoRefs, Main, <<1>>),
                               SetRef(SetRef(NoRefs, Main, <<1, 0>>),
                                      Leftover, <<1>>)} }
    /\ work = [exists |-> TRUE, refs |-> SetRef(NoRefs, Main, <<1>>),
               track |-> NoRefs, head |-> Main, dirty |-> FALSE,
               url |-> "url1"]
    /\ stage = NoStage
    /\ registry = [id \in StagingIds |->
                      IF id = OtherRel THEN OtherEntry ELSE NoEntry]
    /\ malformed = FALSE
    /\ now = 0
    /\ nextId = 2
    /\ edits = 0
    /\ runs = 0
    /\ pc = "idle"
    /\ inv = NoInv
    /\ exitCode = -1
    /\ pre = NoSnapshot
    /\ log = <<>>
    /\ naming = NoNaming

(* ------------------------------------------------------- operator's edits *)
(* What the developer does to the repositories between two invocations.    *)
Idle == pc = "idle"

(* An edit is of interest only while an invocation can still follow it.    *)
CanEdit == Idle /\ runs < MaxRuns

StageCommit ==
    /\ CanEdit /\ stage.exists /\ Has(stage.refs, stage.head)
    /\ nextId <= MaxCommits
    /\ stage' = [stage EXCEPT !.refs[stage.head] = Append(@, nextId)]
    /\ nextId' = nextId + 1
    /\ UNCHANGED <<remote, work, registry, malformed, now, edits, runs, pc,
                   inv, exitCode, pre, log, naming>>

WorkCommit ==
    /\ CanEdit /\ Has(work.refs, work.head)
    /\ nextId <= MaxCommits
    /\ work' = [work EXCEPT !.refs[work.head] = Append(@, nextId)]
    /\ nextId' = nextId + 1
    /\ UNCHANGED <<remote, stage, registry, malformed, now, edits, runs, pc,
                   inv, exitCode, pre, log, naming>>

EditTree ==
    /\ CanEdit /\ edits < MaxEdits
    /\ \/ /\ stage.exists
          /\ stage' = [stage EXCEPT !.dirty = ~@]
          /\ work' = work
       \/ /\ work' = [work EXCEPT !.dirty = ~@]
          /\ stage' = stage
    /\ edits' = edits + 1
    /\ UNCHANGED <<remote, registry, malformed, now, nextId, runs, pc, inv,
                   exitCode, pre, log, naming>>

SwitchHead ==
    /\ CanEdit /\ edits < MaxEdits
    /\ \/ /\ \E h \in (DOMAIN work.refs \cup {DetachedHead}) \ {work.head} :
                work' = [work EXCEPT !.head = h]
          /\ stage' = stage
       \/ /\ Has(work.refs, work.head) /\ ~Has(work.refs, Dev)
          /\ work' = [work EXCEPT !.refs = SetRef(@, Dev, HeadCommit(work)),
                                  !.head = Dev]
          /\ stage' = stage
       \/ /\ stage.exists /\ stage.head # DetachedHead
          /\ stage' = [stage EXCEPT !.head = DetachedHead]
          /\ work' = work
    /\ edits' = edits + 1
    /\ UNCHANGED <<remote, registry, malformed, now, nextId, runs, pc, inv,
                   exitCode, pre, log, naming>>

SetUrl ==
    /\ CanEdit /\ edits < MaxEdits
    /\ \E u \in Urls :
          \/ /\ u # work.url
             /\ work' = [work EXCEPT !.url = u]
             /\ stage' = stage
          \/ /\ stage.exists /\ u # stage.url
             /\ stage' = [stage EXCEPT !.url = u]
             /\ work' = work
          \/ /\ stage.exists /\ u # stage.url /\ u # work.url
             /\ stage' = [stage EXCEPT !.url = u]
             /\ work' = [work EXCEPT !.url = u]
    /\ edits' = edits + 1
    /\ UNCHANGED <<remote, registry, malformed, now, nextId, runs, pc, inv,
                   exitCode, pre, log, naming>>

(* The operator removes the registry file, damages it, or repairs it.      *)
EditConfig ==
    /\ CanEdit /\ edits < MaxEdits
    /\ \/ /\ ~malformed
          /\ registry # [id \in StagingIds |-> NoEntry]
          /\ registry' = [id \in StagingIds |-> NoEntry]
          /\ malformed' = FALSE
       \/ /\ malformed' = ~malformed
          /\ registry' = registry
    /\ edits' = edits + 1
    /\ UNCHANGED <<remote, work, stage, now, nextId, runs, pc, inv, exitCode,
                   pre, log, naming>>

(* ------------------------------------------------------- the running process *)
(* An invocation runs to completion between two prompts.  A command-line    *)
(* option is drawn at the step that first reads it; an option the run never *)
(* reads keeps its argparse default (lines 512-558).  The intermediate      *)
(* states are records m with the fields the code reads and writes; every    *)
(* step below maps such a record to the set of records the step can         *)
(* produce (several when git's outcome or the clock is not determined).     *)
Process(i) ==
    [remote |-> remote, work |-> work, stage |-> stage,
     registry |-> registry, malformed |-> malformed, now |-> now,
     pc |-> "start", inv |-> i, exitCode |-> -1, log |-> <<>>]

WithEntry_Alone(config, stage_rel, config_entry) ==
    [id \in DOMAIN config |->
        IF id = stage_rel THEN config_entry ELSE NoEntry]

(* lines 254 and 453: config["projects"][str(stage_rel)] = config_entry.   *)
WithEntry(config, stage_rel, config_entry) ==
    [config EXCEPT ![stage_rel] = config_entry]

(* load_config(), lines 139-146: the registry, unless the file is not JSON. *)
ConfigLoads(m) == ~m.malformed

Logged(m, op, who, ref, ok) ==
    [m EXCEPT !.log = Append(@, Event(op, who, ref, ok))]

At(m, label) == [m EXCEPT !.pc = label]

(* time.time() at a call: any value from the last one read up to the bound. *)
ClockReads(m) == m.now..MaxTime

PushAccepted_Forced(refs, name, commit) == commit # NoCommit

(* A push to an existing remote branch is accepted only as a fast-forward. *)
PushAccepted(refs, name, commit) ==
    /\ commit # NoCommit
    /\ Has(refs, name) => IsAncestor(refs[name], commit)

(* fail(): print and sys.exit(1); also main's handler of                   *)
(* CalledProcessError, lines 587-591.                                      *)
FailStatus == 1

Fail(m, kind) ==
    [m EXCEPT !.pc = "done", !.exitCode = FailStatus, !.inv.err = kind,
              !.inv.at = m.pc, !.inv.fault = @ \/ kind = "transport"]

ensure_clean_Skipped(repo) == TRUE

(* ensure_clean(): returns normally iff `git status --porcelain` is empty. *)
ensure_clean(repo) == ~repo.dirty

(* get_current_branch(): "HEAD" means detached; an unborn branch makes     *)
(* rev-parse fail.                                                         *)
BranchReadable(repo) == repo.head # DetachedHead /\ Has(repo.refs, repo.head)

TempTaken_Never(refs, temp_branch) == FALSE

(* lines 228-232 and 335-339: `git ls-remote --heads origin <name>` prints  *)
(* a line iff the remote has a branch of that name.                        *)
TempTaken(refs, temp_branch) == Has(refs, temp_branch)

(* ---------------------------------------------------------------- sync-back *)
ExplicitTemps == {NoName, Tmp, Main}
ExplicitBranches == {NoName, Dev}

(* lines 269-294: resolve the staging path, load the registry, resolve the  *)
(* work path.                                                              *)
SyncResolve(m) ==
    IF ~m.stage.exists THEN {Fail(m, "no_stage")}
    ELSE IF ~ConfigLoads(m) THEN {Fail(m, "config")}
    ELSE {[m EXCEPT !.pc = "sb_clean", !.inv.config = m.registry,
                    !.inv.entry = m.registry[StageRel]]}

(* lines 296-299: the cleanliness gate.                                    *)
CleanGate(m) ==
    IF ~m.inv.allow_dirty_stage /\ ~ensure_clean(m.stage)
    THEN Fail(m, "dirty_stage")
    ELSE IF ~m.inv.allow_dirty_work /\ ~ensure_clean(m.work)
    THEN Fail(m, "dirty_work")
    ELSE At(m, "sb_select")

SyncClean(m) ==
    { CleanGate([m EXCEPT !.inv.allow_dirty_stage = ads,
                          !.inv.allow_dirty_work = adw])
      : ads \in BOOLEAN, adw \in BOOLEAN }

TargetBranch_IgnoresRegistry(arg_branch, stored_base_branch, staging_branch) ==
    IF arg_branch # NoName THEN arg_branch ELSE staging_branch

(* line 308 *)
TargetBranch(arg_branch, stored_base_branch, staging_branch) ==
    IF arg_branch # NoName THEN arg_branch
    ELSE IF stored_base_branch # NoName THEN stored_base_branch
    ELSE staging_branch

(* lines 319-324 *)
ChooseTemp(arg_temp, recorded_temp_branch, staging_branch, clock) ==
    IF arg_temp # NoName THEN arg_temp
    ELSE IF recorded_temp_branch # NoName THEN recorded_temp_branch
    ELSE make_temp_branch_name(StageRel, staging_branch, clock)

(* lines 301-324: staging branch, target branch, temporary branch.         *)
SelectBranches(m) ==
    IF m.stage.head = DetachedHead THEN {Fail(m, "detached_stage")}
    ELSE IF ~BranchReadable(m.stage) THEN {Fail(m, "git")}
    ELSE LET staging_branch == m.stage.head
             stored_base_branch == m.inv.entry.base_branch
             recorded_temp_branch == m.inv.entry.temp_branch
             generated == m.inv.arg_temp = NoName
                          /\ recorded_temp_branch = NoName
         IN  { [m EXCEPT
                  !.pc = "sb_remote",
                  !.now = clock,
                  !.inv.staging_branch = staging_branch,
                  !.inv.target_branch = TargetBranch(m.inv.arg_branch,
                                           stored_base_branch, staging_branch),
                  !.inv.temp_branch = ChooseTemp(m.inv.arg_temp,
                                recorded_temp_branch, staging_branch, clock),
                  !.inv.first_temp = ChooseTemp(m.inv.arg_temp,
                                recorded_temp_branch, staging_branch, clock)]
               : clock \in IF generated THEN ClockReads(m) ELSE {m.now} }

SyncSelect(m) ==
    IF ~BranchReadable(m.stage) THEN SelectBranches(m)
    ELSE UNION { SelectBranches([m EXCEPT !.inv.arg_branch = b,
                                         !.inv.arg_temp = t])
                 : b \in ExplicitBranches, t \in ExplicitTemps }

RemotesMatch_Always(work_remote_url, staging_remote_url, entry) == TRUE

RemotesMatch_Recorded(work_remote_url, staging_remote_url, entry) ==
    /\ work_remote_url = staging_remote_url
    /\ entry.present => entry.remote = work_remote_url

(* line 328: the remote-identity test.                                     *)
RemotesMatch(work_remote_url, staging_remote_url, entry) ==
    work_remote_url = staging_remote_url

(* lines 326-332: the remote-identity gate.                                *)
SyncRemoteGate(m) ==
    IF RemotesMatch(m.work.url, m.stage.url, m.inv.entry)
    THEN {[m EXCEPT !.pc = "sb_check",
                    !.inv.staging_remote_url = m.stage.url]}
    ELSE {Fail(m, "remote_mismatch")}

(* lines 334-345: the existence check of the temporary branch.             *)
SyncCheckTemp(m) ==
    LET recorded == m.inv.entry.temp_branch # NoName
        explicit == m.inv.arg_temp # NoName
        existing_temp == TempTaken(m.remote[m.stage.url], m.inv.temp_branch)
        listed == Logged(m, "ls-remote", "stage", m.inv.temp_branch, TRUE)
    IN  IF ~recorded \/ explicit
        THEN IF existing_temp /\ ~explicit /\ ~recorded
             THEN { [listed EXCEPT
                        !.pc = "sb_publish",
                        !.now = clock,
                        !.inv.temp_branch = make_temp_branch_name(StageRel,
                                              m.inv.staging_branch, clock)]
                    : clock \in ClockReads(m) }
             ELSE IF existing_temp /\ explicit
             THEN {Fail(listed, "temp_exists")}
             ELSE {At(listed, "sb_publish")}
        ELSE {At(m, "sb_publish")}

(* lines 347-354: push staging HEAD to the temporary branch.  The push is   *)
(* outside the try block: a failure here exits without cleanup.            *)
SyncPublish(m) ==
    LET temp == m.inv.temp_branch
        head == HeadCommit(m.stage)
    IN  {Fail(Logged(m, "push", "stage", temp, FALSE), "transport")} \cup
        ( IF ~PushAccepted(m.remote[m.stage.url], temp, head)
          THEN {Fail(Logged(m, "push", "stage", temp, FALSE), "rejected")}
          ELSE {[Logged(m, "push", "stage", temp, TRUE) EXCEPT
                    !.pc = "sb_fetch",
                    !.remote[m.stage.url] = SetRef(@, temp, head),
                    !.stage.track = SetRef(@, temp, head),
                    !.inv.published = TRUE]} )

OnTryFailure_NoFinally == "done"

(* A failure inside the try block (lines 356-425): SystemExit raised by     *)
(* fail() and CalledProcessError both run the finally clause first.        *)
OnTryFailure == "sb_cleanup"

TryFail(m, kind) ==
    [m EXCEPT !.pc = OnTryFailure,
              !.exitCode = IF OnTryFailure = "done" THEN FailStatus ELSE @,
              !.inv.err = kind,
              !.inv.at = m.pc,
              !.inv.fault = @ \/ kind = "transport"]

(* lines 357-358: fetch the temporary branch into the work repository.     *)
SyncFetch(m) ==
    LET temp == m.inv.temp_branch
    IN  {TryFail(m, "transport")} \cup
        ( IF ~Has(m.remote[m.work.url], temp) THEN {TryFail(m, "git")}
          ELSE {[Logged(m, "fetch", "work", temp, TRUE) EXCEPT
                    !.pc = "sb_bootstrap",
                    !.work.track = SetRef(@, temp,
                                          m.remote[m.work.url][temp])]} )

(* line 375: the start point of a target branch that is missing locally.   *)
BootstrapStart(target_branch, temp_branch) == target_branch

(* lines 360-377: create the target branch when the work repository has    *)
(* none: fetch BootstrapStart from origin, then checkout -B.               *)
SyncBootstrap(m) ==
    LET target == m.inv.target_branch
        from == BootstrapStart(target, m.inv.temp_branch)
    IN  IF Has(m.work.refs, target) THEN {At(m, "sb_branch")}
        ELSE {TryFail(m, "transport")} \cup
             ( IF ~Has(m.remote[m.work.url], from) THEN {TryFail(m, "git")}
               ELSE {[Logged(Logged(m, "fetch", "work", from, TRUE),
                             "checkout", "work", target, TRUE) EXCEPT
                         !.pc = "sb_branch",
                         !.work.track = SetRef(@, from,
                                               m.remote[m.work.url][from]),
                         !.work.refs = SetRef(@, target,
                                              m.remote[m.work.url][from]),
                         !.work.head = target,
                         !.inv.created_at = m.remote[m.work.url][from]]} )

(* lines 379-392: the work repository must be on the target branch.        *)
SyncBranchGate(m) ==
    IF m.work.head = DetachedHead THEN {TryFail(m, "detached_work")}
    ELSE IF m.work.head = m.inv.target_branch THEN {At(m, "sb_integrate")}
    ELSE { IF ac
           THEN [Logged(m, "checkout", "work", m.inv.target_branch, TRUE)
                   EXCEPT !.pc = "sb_integrate",
                          !.work.head = m.inv.target_branch,
                          !.inv.auto_checkout = TRUE]
           ELSE TryFail(m, "wrong_branch")
           : ac \in BOOLEAN }

MergeFfOnly_NeverRefuses(current, incoming) ==
    IF IsAncestor(incoming, current) THEN 0 ELSE 1

MergeFfOnly_RefusesUpToDate(current, incoming) ==
    IF IsAncestor(current, incoming) /\ current # incoming THEN 1 ELSE 2

(* git merge --ff-only: 0 = already up to date, 1 = fast-forward,          *)
(* 2 = refused.                                                            *)
MergeFfOnly(current, incoming) ==
    IF IsAncestor(incoming, current) THEN 0
    ELSE IF IsAncestor(current, incoming) THEN 1
    ELSE 2

(* lines 394-422: reset --hard with --force, else merge --ff-only.  A hard  *)
(* reset keeps untracked files; a fast-forward over local changes may be   *)
(* refused.                                                                *)
HardReset_FastForwardOnly(refs, branch, commit) ==
    IF IsAncestor(refs[branch], commit) THEN [refs EXCEPT ![branch] = commit]
    ELSE refs

(* lines 398-402: git reset --hard moves the checked-out branch.           *)
HardReset(refs, branch, commit) == [refs EXCEPT ![branch] = commit]

Integrate(m) ==
    LET fetched == m.work.track[m.inv.temp_branch]
        current == HeadCommit(m.work)
        branch == m.work.head
    IN  IF m.inv.force
        THEN { [Logged(m, "reset", "work", branch, TRUE) EXCEPT
                   !.pc = "sb_push",
                   !.work.refs = HardReset(@, branch, fetched),
                   !.work.dirty = d] : d \in {FALSE, m.work.dirty} }
        ELSE IF MergeFfOnly(current, fetched) = 2 THEN {TryFail(m, "ff")}
        ELSE IF MergeFfOnly(current, fetched) = 0 THEN {At(m, "sb_push")}
        ELSE {[Logged(m, "merge", "work", branch, TRUE) EXCEPT
                  !.pc = "sb_push",
                  !.work.refs[branch] = fetched]} \cup
             ( IF m.work.dirty THEN {TryFail(m, "ff")} ELSE {} )

SyncIntegrate(m) ==
    UNION { Integrate([m EXCEPT !.inv.force = f]) : f \in BOOLEAN }

(* lines 424-425: push the target branch from the work repository.         *)
SyncPushTarget(m) ==
    LET target == m.inv.target_branch
        tip == m.work.refs[target]
    IN  {TryFail(Logged(m, "push", "work", target, FALSE), "transport")} \cup
        ( IF ~PushAccepted(m.remote[m.work.url], target, tip)
          THEN {TryFail(Logged(m, "push", "work", target, FALSE), "rejected")}
          ELSE {[Logged(m, "push", "work", target, TRUE) EXCEPT
                    !.pc = "sb_cleanup",
                    !.remote[m.work.url] = SetRef(@, target, tip),
                    !.work.track = SetRef(@, target, tip)]} )

AfterCleanup_Escalates(m, deleted) ==
    IF m.inv.err # "" \/ ~deleted
    THEN [m EXCEPT !.pc = "done", !.exitCode = FailStatus]
    ELSE At(m, "sb_record")

(* lines 433-439: the except clause swallows a failed deletion.  Leaving    *)
(* the finally clause re-raises the pending failure, if any (main, lines    *)
(* 587-591, turns it into exit status 1); otherwise line 441 follows.       *)
AfterCleanup(m, deleted) ==
    IF m.inv.err # ""
    THEN [m EXCEPT !.pc = "done", !.exitCode = FailStatus]
    ELSE At(m, "sb_record")

(* lines 426-439: the finally clause deletes the temporary branch; a        *)
(* failed deletion is only a warning.                                      *)
SyncCleanup(m) ==
    LET temp == m.inv.temp_branch
    IN  { [Logged(AfterCleanup(m, FALSE), "delete", "work", temp, FALSE)
              EXCEPT !.inv.fault = TRUE] } \cup
        ( IF Has(m.remote[m.work.url], temp)
          THEN {[Logged(AfterCleanup(m, TRUE), "delete", "work", temp, TRUE)
                    EXCEPT !.remote[m.work.url] = DelRef(@, temp),
                           !.work.track = DelRef(@, temp)]}
          ELSE {} )

(* lines 441-457: record the mapping and finish.                           *)
SyncRecord(m) ==
    LET config_entry ==
          [present |-> TRUE,
           work_name |-> StageRel,
           base_branch |-> m.inv.target_branch,
           staging_branch |-> m.inv.staging_branch,
           temp_branch |-> m.inv.temp_branch,
           remote |-> m.inv.staging_remote_url,
           branch |-> m.inv.target_branch,
           last_temp_branch |-> m.inv.temp_branch]
    IN  {[Logged(m, "save", "registry", StageRel, TRUE) EXCEPT
             !.pc = "done",
             !.exitCode = 0,
             !.registry = WithEntry(m.inv.config, StageRel, config_entry)]}

(* sync_back, lines 269-457, one step.                                     *)
SyncStep(m) ==
    CASE m.pc = "start" -> SyncResolve(m)
      [] m.pc = "sb_clean" -> SyncClean(m)
      [] m.pc = "sb_select" -> SyncSelect(m)
      [] m.pc = "sb_remote" -> SyncRemoteGate(m)
      [] m.pc = "sb_check" -> SyncCheckTemp(m)
      [] m.pc = "sb_publish" -> SyncPublish(m)
      [] m.pc = "sb_fetch" -> SyncFetch(m)
      [] m.pc = "sb_bootstrap" -> SyncBootstrap(m)
      [] m.pc = "sb_branch" -> SyncBranchGate(m)
      [] m.pc = "sb_integrate" -> SyncIntegrate(m)
      [] m.pc = "sb_push" -> SyncPushTarget(m)
      [] m.pc = "sb_cleanup" -> SyncCleanup(m)
      [] m.pc = "sb_record" -> SyncRecord(m)

RECURSIVE SyncRuns(_)
SyncRuns(m) ==
    IF m.pc = "done" THEN {m}
    ELSE UNION { SyncRuns(n) : n \in SyncStep(m) }

(* The process exits: its effects and its exit status become visible.      *)
Finish(m) ==
    /\ remote' = m.remote
    /\ work' = m.work
    /\ stage' = m.stage
    /\ registry' = m.registry
    /\ now' = m.now
    /\ inv' = m.inv
    /\ exitCode' = m.exitCode
    /\ log' = m.log
    /\ pc' = "done"
    /\ pre' = Snapshot
    /\ runs' = runs + 1
    /\ UNCHANGED <<malformed, nextId, edits, naming>>

sync_back ==
    /\ Idle /\ runs < MaxRuns
    /\ \E m \in SyncRuns(Process([NoInv EXCEPT !.cmd = "sync"])) : Finish(m)

(* The operator is back at the prompt.                                     *)
Exit ==
    /\ pc = "done"
    /\ pc' = "idle"
    /\ inv' = NoInv
    /\ exitCode' = -1
    /\ pre' = NoSnapshot
    /\ log' = <<>>
    /\ UNCHANGED <<remote, work, stage, registry, malformed, now, nextId,
                   edits, runs, naming>>

(* -------------------------------------------------------------------- clone *)
(* lines 194-210: resolve the source project, read its branch and remote.  *)
CloneResolve(m) ==
    IF m.work.head = DetachedHead THEN {Fail(m, "detached_source")}
    ELSE IF ~BranchReadable(m.work) THEN {Fail(m, "git")}
    ELSE {[m EXCEPT !.pc = "cl_ensure", !.inv.branch = m.work.head,
                    !.inv.remote_url = m.work.url]}

(* lines 125-136, called at line 212: `push -u` the source branch when the *)
(* remote does not have it.                                                *)
ensure_branch_on_remote(m) ==
    LET branch == m.inv.branch
        tip == m.work.refs[branch]
    IN  IF Has(m.remote[m.work.url], branch) THEN {At(m, "cl_target")}
        ELSE { Fail(Logged(m, "push-u", "work", branch, FALSE), "transport"),
               [Logged(m, "push-u", "work", branch, TRUE) EXCEPT
                   !.pc = "cl_target",
                   !.remote[m.work.url] = SetRef(@, branch, tip),
                   !.work.track = SetRef(@, branch, tip)] }

TargetBlocked_Never(exists, force) == FALSE

(* lines 216-221: an existing target stops the clone unless --force.       *)
TargetBlocked(exists, force) == exists /\ ~force

(* lines 214-224: an existing target is replaced only with --force.        *)
CloneTarget(m) ==
    IF ~m.stage.exists THEN {At(m, "cl_temp")}
    ELSE { IF TargetBlocked(m.stage.exists, f)
           THEN Fail([m EXCEPT !.inv.force = f], "target_exists")
           ELSE [Logged(m, "rmtree", "stage", StageRel, TRUE) EXCEPT
                    !.pc = "cl_temp", !.stage = NoStage, !.inv.force = f]
           : f \in BOOLEAN }

(* lines 226-236: choose the temporary branch and require its absence.     *)
CheckTemp(m) ==
    { LET temp_branch ==
            IF m.inv.arg_temp # NoName THEN m.inv.arg_temp
            ELSE make_temp_branch_name(StageRel, m.inv.branch, clock)
          listed == [Logged(m, "ls-remote", "work", temp_branch, TRUE) EXCEPT
                        !.now = clock,
                        !.inv.temp_branch = temp_branch,
                        !.inv.first_temp = temp_branch]
      IN  IF TempTaken(m.remote[m.work.url], temp_branch)
          THEN Fail(listed, "temp_exists")
          ELSE At(listed, "cl_push")
      : clock \in IF m.inv.arg_temp = NoName THEN ClockReads(m) ELSE {m.now} }

CloneTemp(m) ==
    UNION { CheckTemp([m EXCEPT !.inv.arg_temp = t]) : t \in ExplicitTemps }

(* lines 238-245: publish the source HEAD as the temporary branch.         *)
ClonePush(m) ==
    LET temp == m.inv.temp_branch
        head == HeadCommit(m.work)
    IN  { Fail(Logged(m, "push", "work", temp, FALSE), "transport"),
          [Logged(m, "push", "work", temp, TRUE) EXCEPT
              !.pc = "cl_init",
              !.remote[m.work.url] = SetRef(@, temp, head),
              !.work.track = SetRef(@, temp, head),
              !.inv.published = TRUE] }

CloneLocalBranch_BaseName(branch, temp_branch) == branch

(* line 250: the local branch name clone_project passes to                 *)
(* init_staging_repo.                                                      *)
CloneLocalBranch(branch, temp_branch) == temp_branch

(* lines 154-173: mkdir, git init, remote add; then fetch and checkout -B. *)
(* fetched is NoCommit when the fetch failed: the directory then holds an  *)
(* empty repository with an unborn branch.                                 *)
init_staging_repo(remote_url, local_branch, remote_branch, fetched) ==
    LET tracked_branch ==
            IF remote_branch # NoName THEN remote_branch ELSE local_branch
        fresh == [exists |-> TRUE, refs |-> NoRefs, track |-> NoRefs,
                  head |-> NoName, dirty |-> FALSE, url |-> remote_url]
    IN  IF fetched = NoCommit THEN fresh
        ELSE [fresh EXCEPT !.track = SetRef(NoRefs, tracked_branch, fetched),
                           !.refs = SetRef(NoRefs, local_branch, fetched),
                           !.head = local_branch]

(* lines 247-250: build the staging repository from the temporary branch.  *)
CloneInit(m) ==
    LET temp == m.inv.temp_branch
        local == CloneLocalBranch(m.inv.branch, temp)
        url == m.inv.remote_url
    IN  { Fail([Logged(m, "init", "stage", local, FALSE) EXCEPT
                   !.stage = init_staging_repo(url, local, temp, NoCommit)],
               "transport"),
          [Logged(m, "init", "stage", local, TRUE) EXCEPT
              !.pc = "cl_record",
              !.stage = init_staging_repo(url, local, temp,
                                          m.remote[url][temp])] }

(* lines 252-266: load the registry, record the mapping, save.             *)
CloneRecord(m) ==
    LET config_entry ==
          [present |-> TRUE,
           work_name |-> StageRel,
           base_branch |-> m.inv.branch,
           staging_branch |-> m.inv.temp_branch,
           temp_branch |-> m.inv.temp_branch,
           remote |-> m.inv.remote_url,
           branch |-> NoName,
           last_temp_branch |-> NoName]
    IN  IF ~ConfigLoads(m) THEN {Fail(m, "config")}
        ELSE
        {[Logged(m, "save", "registry", StageRel, TRUE) EXCEPT
             !.pc = "done",
             !.exitCode = 0,
             !.inv.config = m.registry,
             !.registry = WithEntry(m.registry, StageRel, config_entry)]}

(* clone_project, lines 194-266, one step.                                 *)
CloneStep(m) ==
    CASE m.pc = "start" -> CloneResolve(m)
      [] m.pc = "cl_ensure" -> ensure_branch_on_remote(m)
      [] m.pc = "cl_target" -> CloneTarget(m)
      [] m.pc = "cl_temp" -> CloneTemp(m)
      [] m.pc = "cl_push" -> ClonePush(m)
      [] m.pc = "cl_init" -> CloneInit(m)
      [] m.pc = "cl_record" -> CloneRecord(m)

RECURSIVE CloneRuns(_)
CloneRuns(m) ==
    IF m.pc = "done" THEN {m}
    ELSE UNION { CloneRuns(n) : n \in CloneStep(m) }

clone_project ==
    /\ Idle /\ runs < MaxRuns
    /\ \E m \in CloneRuns(Process([NoInv EXCEPT !.cmd = "clone"])) :
          Finish(m)

(* --------------------------------------------------------------------- list *)
(* lines 460-479: read-only rendering of the registry.                     *)
ListStep(m) ==
    IF ~ConfigLoads(m) THEN Fail(m, "config")
    ELSE [m EXCEPT !.pc = "done", !.exitCode = 0, !.inv.config = m.registry]

list_projects ==
    /\ Idle /\ runs < MaxRuns
    /\ Finish(ListStep(Process([NoInv EXCEPT !.cmd = "list"])))

(* ------------------------------------------------------------ specification *)
(* The developer pushes the work repository's current branch to its origin. *)
WorkPush ==
    /\ CanEdit /\ edits < MaxEdits
    /\ Has(work.refs, work.head)
    /\ PushAccepted(remote[work.url], work.head, work.refs[work.head])
    /\ ~( Has(remote[work.url], work.head)
          /\ remote[work.url][work.head] = work.refs[work.head] )
    /\ remote' = [remote EXCEPT
                     ![work.url] = SetRef(@, work.head, work.refs[work.head])]
    /\ work' = [work EXCEPT !.track = SetRef(@, work.head, work.refs[work.head])]
    /\ edits' = edits + 1
    /\ UNCHANGED <<stage, registry, malformed, now, nextId, runs, pc, inv,
                   exitCode, pre, log, naming>>

Next ==
    \/ StageCommit \/ WorkCommit \/ EditTree \/ SwitchHead \/ SetUrl
    \/ EditConfig \/ WorkPush
    \/ sync_back \/ clone_project \/ list_projects \/ Exit

Spec == Init /\ [][Next]_vars

(* ------------------------------------------------- branch naming on its own *)
(* make_temp_branch_name applied to every staging name and branch text of   *)
(* at most MaxNameLen characters over NameAlphabet: a letter, the           *)
(* characters the sanitiser keeps, the path separator, a space and a        *)
(* non-ASCII letter.                                                        *)
NameAlphabet == {"a", "-", ".", "/", " ", "é"}

NameInputs ==
    UNION { [1..n -> NameAlphabet] : n \in 0..MaxNameLen }

NameInit ==
    /\ naming \in { [NoNaming EXCEPT !.staging_name = s, !.branch = b]
                     : s \in NameInputs, b \in NameInputs }
    /\ pc = "naming"
    /\ remote = [u \in Urls |-> NoRefs]
    /\ work = [NoStage EXCEPT !.exists = TRUE]
    /\ stage = NoStage
    /\ registry = [id \in StagingIds |-> NoEntry]
    /\ malformed = FALSE
    /\ now = 0
    /\ nextId = 2
    /\ edits = 0
    /\ runs = 0
    /\ inv = NoInv
    /\ exitCode = -1
    /\ pre = NoSnapshot
    /\ log = <<>>

(* lines 187-191, with the two calls of sanitize_for_branch kept apart.     *)
MakeName ==
    /\ pc = "naming"
    /\ \E clock \in now..MaxTime :
          /\ now' = clock
          /\ naming' = [naming EXCEPT
                !.stage_part = sanitize_for_branch(PathStr(naming.staging_name)),
                !.branch_part = sanitize_for_branch(naming.branch),
                !.name = make_temp_branch_name(naming.staging_name,
                                               naming.branch, clock)]
    /\ pc' = "named"
    /\ UNCHANGED <<remote, work, stage, registry, malformed, nextId, edits,
                   runs, inv, exitCode, pre, log>>

NameNext == MakeName

NameSpec == NameInit /\ [][NameNext]_vars

(* ------------------------------------------------------------- properties *)
Done == pc = "done"
SyncDone == Done /\ inv.cmd = "sync"
CloneDone == Done /\ inv.cmd = "clone"

Did(op, who) ==
    \E i \in 1..Len(log) : log[i].op = op /\ log[i].who = who

WorldUnchanged ==
    /\ remote = pre.remote
    /\ work = pre.work
    /\ stage = pre.stage
    /\ registry = pre.registry

(* C1: once sync-back has pushed staging HEAD to the temporary branch, it    *)
(* attempts to delete that branch on the remote before it exits, whatever   *)
(* happens after the push; and when the deletion succeeds the branch is     *)
(* absent from the remote at exit.                                          *)
C1_CleanupAfterPublish ==
    (SyncDone /\ inv.published) =>
       /\ \E i \in 1..Len(log) :
             /\ log[i].op = "delete" /\ log[i].ref = inv.temp_branch
             /\ \E j \in 1..(i - 1) :
                   log[j] = Event("push", "stage", inv.temp_branch, TRUE)
       /\ \A i \in 1..Len(log) :
             (log[i].op = "delete" /\ log[i].ok)
                => ~Has(remote[work.url], inv.temp_branch)

C1_Witness ==
    /\ SyncDone /\ inv.published /\ exitCode = 1
    /\ inv.err = "ff"
    /\ log[Len(log)] = Event("delete", "work", inv.temp_branch, TRUE)
    /\ ~Has(remote[work.url], inv.temp_branch)

(* C2: a sync-back that finds uncommitted changes on a side whose            *)
(* --allow-dirty flag is not given exits 1 without any git mutation and     *)
(* without a registry write; the flag of the other side does not help.      *)
C2_DirtyTreeStops ==
    ( /\ SyncDone
      /\ \/ pre.stage.dirty /\ ~inv.allow_dirty_stage
         \/ pre.work.dirty /\ ~inv.allow_dirty_work )
    => /\ exitCode = 1
       /\ log = <<>>
       /\ WorldUnchanged

C2_Witness ==
    /\ SyncDone /\ exitCode = 1
    /\ pre.stage.dirty /\ ~inv.allow_dirty_stage /\ inv.allow_dirty_work
    /\ inv.err = "dirty_stage"
    /\ log = <<>>

(* The target branch of the sync-back, its tip in the work repository and   *)
(* staging's HEAD, all as they were when the invocation started.            *)
TargetKnown == SyncDone /\ inv.target_branch # NoName
WorkHadTarget == Has(pre.work.refs, inv.target_branch)
WorkTipBefore == pre.work.refs[inv.target_branch]
StageHeadBefore == HeadCommit(pre.stage)
WorkPushedTarget ==
    \E i \in 1..Len(log) : log[i] = Event("push", "work", inv.target_branch, TRUE)

(* C3 as stated: without --force, whenever the work target branch has a      *)
(* commit that staging's HEAD history lacks, sync-back exits 1, the work     *)
(* tip is unchanged and the work repository does not push the target branch. *)
C3_AsStated ==
    ( /\ TargetKnown /\ ~inv.force /\ WorkHadTarget
      /\ ~IsAncestor(WorkTipBefore, StageHeadBefore) )
    => /\ exitCode = 1
       /\ work.refs[inv.target_branch] = WorkTipBefore
       /\ ~WorkPushedTarget

(* C3 amended: without --force, when the work target branch and staging's    *)
(* HEAD each have a commit the other lacks, sync-back exits 1, it fails no   *)
(* later than the merge and there with the fast-forward error, the work tip  *)
(* is unchanged and the work repository does not push the target branch.     *)
C3_DivergenceRefused ==
    ( /\ TargetKnown /\ ~inv.force /\ WorkHadTarget
      /\ ~IsAncestor(WorkTipBefore, StageHeadBefore)
      /\ ~IsAncestor(StageHeadBefore, WorkTipBefore) )
    => /\ exitCode = 1
       /\ inv.at # "sb_push"
       /\ inv.at = "sb_integrate" => inv.err = "ff"
       /\ ~Did("merge", "work") /\ ~Did("push", "work")
       /\ work.refs[inv.target_branch] = WorkTipBefore
       /\ ~WorkPushedTarget

C3_Witness ==
    /\ TargetKnown /\ ~inv.force /\ WorkHadTarget
    /\ ~IsAncestor(WorkTipBefore, StageHeadBefore)
    /\ ~IsAncestor(StageHeadBefore, WorkTipBefore)
    /\ exitCode = 1 /\ inv.err = "ff" /\ inv.at = "sb_integrate"
    /\ work.refs[inv.target_branch] = WorkTipBefore

(* C4: a sync-back with --force that reaches the integrate step leaves the   *)
(* work target branch at staging's HEAD commit, whatever the two histories   *)
(* were before.                                                              *)
C4_ForceConverges ==
    (SyncDone /\ inv.force)
    => /\ Did("reset", "work")
       /\ Has(work.refs, inv.target_branch)
       /\ work.refs[inv.target_branch] = HeadCommit(stage)
       /\ HeadCommit(stage) = StageHeadBefore

C4_Witness ==
    /\ SyncDone /\ inv.force /\ WorkHadTarget
    /\ ~IsAncestor(WorkTipBefore, StageHeadBefore)
    /\ ~IsAncestor(StageHeadBefore, WorkTipBefore)
    /\ work.refs[inv.target_branch] = StageHeadBefore

(* The state a successful clone leaves behind, seen at the start of a        *)
(* sync-back: the registry entry is the one clone wrote, staging is on the   *)
(* branch clone checked out, the work repository is clean and on its         *)
(* clone-time branch, nobody touched the remote configuration, and the       *)
(* temporary branch clone pushed is still on the remote at the commit the    *)
(* work branch has.                                                          *)
EntryBefore == pre.registry[StageRel]
BaseBranch == EntryBefore.base_branch
SharedRemote == EntryBefore.remote

AfterClone ==
    /\ SyncDone
    /\ ~malformed
    /\ EntryBefore.present /\ EntryBefore.last_temp_branch = NoName
    /\ pre.stage.exists /\ pre.stage.head = EntryBefore.staging_branch
    /\ Has(pre.stage.refs, pre.stage.head)
    /\ pre.work.head = BaseBranch /\ Has(pre.work.refs, BaseBranch)
    /\ ~pre.work.dirty /\ ~pre.stage.dirty
    /\ pre.work.url = SharedRemote /\ pre.stage.url = SharedRemote
    /\ Has(pre.remote[SharedRemote], EntryBefore.temp_branch)
    /\ pre.remote[SharedRemote][EntryBefore.temp_branch] = pre.work.refs[BaseBranch]
    /\ Has(pre.remote[SharedRemote], BaseBranch)

DefaultOptions ==
    /\ ~inv.force /\ ~inv.auto_checkout
    /\ ~inv.allow_dirty_stage /\ ~inv.allow_dirty_work
    /\ inv.arg_branch = NoName /\ inv.arg_temp = NoName

TransportWorking == ~inv.fault

OneCommitAhead(b, a) == IsAncestor(a, b) /\ Len(b) = Len(a) + 1

SyncedTo(commit) ==
    /\ exitCode = 0
    /\ work.refs[BaseBranch] = commit
    /\ Has(remote[SharedRemote], BaseBranch)
    /\ remote[SharedRemote][BaseBranch] = commit
    /\ inv.temp_branch = EntryBefore.temp_branch
    /\ ~Has(remote[SharedRemote], inv.temp_branch)
    /\ registry[StageRel].last_temp_branch = inv.temp_branch

(* C5 as stated: clone, one new commit B in staging, sync-back with default  *)
(* options and working transport: the work branch and the remote's tracked   *)
(* branch are at B, the temporary branch is gone and the registry records    *)
(* it as last_temp_branch.                                                   *)
C5_AsStated ==
    ( /\ AfterClone /\ DefaultOptions /\ TransportWorking
      /\ OneCommitAhead(StageHeadBefore, pre.work.refs[BaseBranch]) )
    => SyncedTo(StageHeadBefore)

(* C5 amended: the same, provided the remote's tracked branch holds no       *)
(* commit that B lacks (otherwise the push of the tracked branch is          *)
(* rejected).                                                                *)
C5_SyncAfterCommit ==
    ( /\ AfterClone /\ DefaultOptions /\ TransportWorking
      /\ OneCommitAhead(StageHeadBefore, pre.work.refs[BaseBranch])
      /\ IsAncestor(pre.remote[SharedRemote][BaseBranch], StageHeadBefore) )
    => SyncedTo(StageHeadBefore)

C5_Witness ==
    /\ AfterClone /\ DefaultOptions /\ TransportWorking
    /\ OneCommitAhead(StageHeadBefore, pre.work.refs[BaseBranch])
    /\ SyncedTo(StageHeadBefore)
    /\ Did("merge", "work")

(* C6 as stated: sync-back right after clone, nothing changed in between,    *)
(* exits 0 and leaves the work branch tip and the remote's tracked branch    *)
(* tip where they were.                                                      *)
C6_AsStated ==
    ( /\ AfterClone /\ DefaultOptions /\ TransportWorking
      /\ StageHeadBefore = pre.work.refs[BaseBranch] )
    => /\ exitCode = 0
       /\ work.refs[BaseBranch] = pre.work.refs[BaseBranch]
       /\ remote[SharedRemote][BaseBranch] = pre.remote[SharedRemote][BaseBranch]

(* C6 amended: clone changes no branch of the work repository and no branch  *)
(* the remote already had; the sync-back right after it leaves the work      *)
(* branch tip where it was, and, when the remote's tracked branch holds no   *)
(* commit the work branch lacks, exits 0 with the remote's tracked branch at *)
(* the work tip (advanced to it when the remote was behind); otherwise the   *)
(* push is rejected, sync-back exits 1 and the remote's tracked branch is    *)
(* unchanged.                                                                *)
C6_CloneThenSync ==
    /\ CloneDone =>
          /\ work.refs = pre.work.refs
          /\ \A u \in Urls : \A n \in DOMAIN pre.remote[u] :
                Has(remote[u], n) /\ remote[u][n] = pre.remote[u][n]
    /\ ( /\ AfterClone /\ DefaultOptions /\ TransportWorking
         /\ StageHeadBefore = pre.work.refs[BaseBranch] )
       => /\ work.refs[BaseBranch] = pre.work.refs[BaseBranch]
          /\ IF IsAncestor(pre.remote[SharedRemote][BaseBranch],
                           pre.work.refs[BaseBranch])
             THEN /\ exitCode = 0
                  /\ remote[SharedRemote][BaseBranch] = pre.work.refs[BaseBranch]
             ELSE /\ exitCode = 1 /\ inv.err = "rejected"
                  /\ remote[SharedRemote][BaseBranch]
                        = pre.remote[SharedRemote][BaseBranch]

C6_Witness ==
    /\ AfterClone /\ DefaultOptions /\ TransportWorking
    /\ StageHeadBefore = pre.work.refs[BaseBranch]
    /\ pre.remote[SharedRemote][BaseBranch] = pre.work.refs[BaseBranch]
    /\ exitCode = 0
    /\ remote[SharedRemote][BaseBranch] = pre.work.refs[BaseBranch]
    /\ work.refs = pre.work.refs

(* C7: clone into an existing staging directory without --force exits 1,     *)
(* leaves the directory as it was and does not write the registry.           *)
C7_ExistingTargetKept ==
    (CloneDone /\ pre.stage.exists /\ ~inv.force)
    => /\ exitCode = 1
       /\ stage = pre.stage
       /\ registry = pre.registry
       /\ ~Did("rmtree", "stage") /\ ~Did("init", "stage")
       /\ ~Did("save", "registry")

C7_Witness ==
    /\ CloneDone /\ pre.stage.exists /\ ~inv.force
    /\ inv.err = "target_exists" /\ exitCode = 1
    /\ Has(pre.stage.refs, pre.stage.head)
    /\ stage = pre.stage

(* C8 as stated: after a successful clone of a work repository on branch b   *)
(* at commit A, staging's checked-out branch is named b and is at A.         *)
C8_AsStated ==
    (CloneDone /\ exitCode = 0)
    => /\ stage.head = inv.branch
       /\ HeadCommit(stage) = HeadCommit(pre.work)

(* C8 amended: after a successful clone of a work repository on branch b at  *)
(* commit A, staging's checked-out branch carries the name of the temporary  *)
(* branch (which differs from b) and tracks it, its tip is A, and b is kept  *)
(* only as base_branch of the registry entry.                                *)
C8_StagingOnTempBranch ==
    (CloneDone /\ exitCode = 0)
    => /\ inv.branch = pre.work.head
       /\ stage.head = inv.temp_branch
       /\ stage.head # inv.branch
       /\ DOMAIN stage.refs = {inv.temp_branch}
       /\ HeadCommit(stage) = pre.work.refs[inv.branch]
       /\ Has(stage.track, inv.temp_branch)
       /\ registry[StageRel].base_branch = inv.branch
       /\ registry[StageRel].staging_branch = inv.temp_branch

C8_Witness ==
    /\ CloneDone /\ exitCode = 0 /\ inv.arg_temp = NoName
    /\ inv.branch = Main
    /\ stage.head = make_temp_branch_name(StageRel, Main, now)
    /\ HeadCommit(stage) = pre.work.refs[Main]

(* C9: when the remote URL of staging differs from the one of the work       *)
(* repository, sync-back exits 1 before any push and changes nothing: no     *)
(* ref, no remote configuration, no registry entry.                          *)
C9_RemoteMismatchStops ==
    (SyncDone /\ pre.stage.exists /\ pre.stage.url # pre.work.url)
    => /\ exitCode = 1
       /\ log = <<>>
       /\ WorldUnchanged

C9_Witness ==
    /\ SyncDone /\ pre.stage.url # pre.work.url
    /\ inv.err = "remote_mismatch" /\ exitCode = 1
    /\ WorldUnchanged

(* C10 as stated: with a registry entry, sync-back fails without a push      *)
(* whenever the recorded remote URL differs from the URL of the work         *)
(* repository or of staging.                                                 *)
C10_AsStated ==
    ( /\ SyncDone /\ EntryBefore.present /\ pre.stage.exists
      /\ \/ EntryBefore.remote # pre.work.url
         \/ EntryBefore.remote # pre.stage.url )
    => /\ exitCode = 1
       /\ ~Did("push", "stage") /\ ~Did("push", "work")

(* C10 amended: sync-back compares the URL of the work repository with the   *)
(* URL of staging only.  When they differ it fails without a push; the       *)
(* recorded URL never makes it fail, and a successful sync-back overwrites   *)
(* the recorded URL with the one read from staging.                          *)
C10_RecordedUrlNotCompared ==
    (SyncDone /\ EntryBefore.present /\ pre.stage.exists)
    => /\ pre.work.url # pre.stage.url
          => /\ exitCode = 1
             /\ ~Did("push", "stage") /\ ~Did("push", "work")
       /\ inv.err = "remote_mismatch" => pre.work.url # pre.stage.url
       /\ exitCode = 0 => registry[StageRel].remote = pre.stage.url

C10_Witness ==
    /\ SyncDone /\ EntryBefore.present
    /\ EntryBefore.remote # pre.work.url /\ pre.work.url = pre.stage.url
    /\ exitCode = 0
    /\ Did("push", "stage") /\ Did("push", "work")
    /\ registry[StageRel].remote = pre.stage.url

(* An effect of the invocation: a git command that changed something or a    *)
(* registry write succeeded (ls-remote only reads).                          *)
Mutated == \E i \in 1..Len(log) : log[i].ok /\ log[i].op # "ls-remote"

PreconditionErrors ==
    {"dirty_stage", "dirty_work", "detached_source", "detached_stage",
     "detached_work", "remote_mismatch", "target_exists"}

(* C11: a clone or sync-back that fails on a precondition violation (dirty   *)
(* tree, detached HEAD of the source, staging or work repository, remote     *)
(* mismatch, existing target without --force) has mutated nothing: no ref on *)
(* the remote, no ref or checked-out branch of either repository, no         *)
(* directory, no registry entry.                                             *)
C11_AsStated ==
    ( /\ Done /\ inv.cmd \in {"clone", "sync"} /\ exitCode = 1
      /\ inv.err \in PreconditionErrors )
    => /\ ~Mutated
       /\ WorldUnchanged

(* C12: with a registry file that is not valid JSON, clone, sync-back and    *)
(* list each exit non-zero before any mutation: no push, no directory        *)
(* removed or created, no repository initialised, no ref changed.            *)
C12_AsStated ==
    (Done /\ malformed)
    => /\ exitCode # 0
       /\ ~Mutated
       /\ WorldUnchanged

(* The invocation changed the shared remote: a push or a deletion succeeded. *)
RemoteMutated ==
    \E i \in 1..Len(log) :
        log[i].ok /\ log[i].op \in {"push", "push-u", "delete"}

(* C13: a clone or sync-back that fails before it has mutated the shared     *)
(* remote has no side effect at all: an existing staging directory is still  *)
(* there with its contents, the refs of both repositories and the registry   *)
(* are unchanged.                                                            *)
C13_AsStated ==
    ( /\ Done /\ inv.cmd \in {"clone", "sync"} /\ exitCode = 1
      /\ ~RemoteMutated )
    => /\ remote = pre.remote
       /\ WorldUnchanged

(* The deletion of the temporary branch, as the invocation logged it.        *)
DeletionFailed ==
    \E i \in 1..Len(log) : log[i].op = "delete" /\ ~log[i].ok
DeletionSucceeded ==
    \E i \in 1..Len(log) : log[i].op = "delete" /\ log[i].ok

(* C14: after the publish push, the exit status of sync-back depends only on *)
(* the steps before the deletion of the temporary branch: when fetch,        *)
(* integrate and the push of the target branch all succeeded it writes the   *)
(* registry entry and exits 0, when one of them failed it exits 1 and        *)
(* leaves the registry alone, in both cases whether the deletion succeeded   *)
(* or failed.                                                                *)
C14_CleanupKeepsStatus ==
    (SyncDone /\ inv.published)
    => /\ DeletionFailed \/ DeletionSucceeded
       /\ IF WorkPushedTarget
          THEN /\ exitCode = 0
               /\ Did("save", "registry")
               /\ registry[StageRel].present
               /\ registry[StageRel].last_temp_branch = inv.temp_branch
          ELSE /\ exitCode = 1
               /\ ~Did("save", "registry")
               /\ registry = pre.registry

C14_Witness ==
    /\ SyncDone /\ inv.published /\ WorkPushedTarget
    /\ DeletionFailed /\ Has(remote[work.url], inv.temp_branch)
    /\ exitCode = 0
    /\ registry[StageRel].last_temp_branch = inv.temp_branch

(* The shape the sanitiser is to give a text.                                *)
Named == pc = "named"
PortableChars == AsciiAlnum \cup {".", "_", "-"}
KeptChars == PortableChars \cup UnicodeAlnum
Trimmed(s) == s # <<>> /\ s[1] # "-" /\ s[Len(s)] # "-"
Over(s, chars) == \A i \in 1..Len(s) : s[i] \in chars
Ascii(s) == \A i \in 1..Len(s) : s[i] \notin UnicodeAlnum
Parts == {naming.stage_part, naming.branch_part}

(* C15 as stated: for every staging path and branch, the generated name has  *)
(* only characters of [A-Za-z0-9._-], is not empty and neither starts nor    *)
(* ends with '-'; and so has each sanitised component.                       *)
C15_AsStated ==
    Named => \A s \in Parts \cup {naming.name} :
                Trimmed(s) /\ Over(s, PortableChars)

(* C15 amended: each sanitised component is not empty, neither starts nor    *)
(* ends with '-' and has only characters that are alphanumeric in Python's   *)
(* sense (non-ASCII letters included) or one of '._-', hence only            *)
(* [A-Za-z0-9._-] when the input is ASCII; the generated name is the prefix  *)
(* staging-sync, one '/', then the two components and the decimal clock      *)
(* joined by '-': apart from that '/' it has only such characters, it has no *)
(* space and no further '/', is not empty and neither starts nor ends with   *)
(* '-'.                                                                      *)
C15_SanitizedShape ==
    Named =>
       LET name == naming.name
           cut == Len(TEMP_BRANCH_PREFIX) + 1
           tail == SubSeq(name, cut + 1, Len(name))
       IN  /\ \A s \in Parts : Trimmed(s) /\ Over(s, KeptChars)
           /\ Ascii(naming.staging_name) => Over(naming.stage_part, PortableChars)
           /\ Ascii(naming.branch) => Over(naming.branch_part, PortableChars)
           /\ Trimmed(name)
           /\ SubSeq(name, 1, cut - 1) = TEMP_BRANCH_PREFIX /\ name[cut] = "/"
           /\ Over(tail, KeptChars)
           /\ (Ascii(naming.staging_name) /\ Ascii(naming.branch))
                 => Over(tail, PortableChars)
           /\ Len(tail) >= Len(naming.stage_part) + Len(naming.branch_part) + 3

C15_Witness ==
    /\ Named
    /\ naming.staging_name = <<"/", " ">> /\ naming.branch = <<"-", "é">>
    /\ naming.stage_part = <<"p", "r", "o", "j", "e", "c", "t">>
    /\ naming.branch_part = <<"é">>
    /\ naming.name = TEMP_BRANCH_PREFIX
                        \o <<"/", "p", "r", "o", "j", "e", "c", "t", "-", "é", "-">>
                        \o Decimal(now)

(* The pushes of HEAD to a temporary branch name (lines 241-245 in clone,    *)
(* run in the source repository; lines 350-354 in sync-back, run in          *)
(* staging), and the remote they go to as it is when the push runs: the only *)
(* earlier change an invocation can have made is clone's push of the source  *)
(* branch.                                                                   *)
Publisher == IF inv.cmd = "clone" THEN "work" ELSE "stage"
Publishes(i) == log[i].op = "push" /\ log[i].who = Publisher
PublishUrl == IF inv.cmd = "clone" THEN pre.work.url ELSE pre.stage.url
PresentAtPush(name) ==
    \/ Has(pre.remote[PublishUrl], name)
    \/ Event("push-u", "work", name, TRUE) \in {log[j] : j \in 1..Len(log)}
CheckedBefore(i) ==
    \E j \in 1..(i - 1) : log[j] = Event("ls-remote", Publisher, log[i].ref, TRUE)

(* C16: every push of HEAD to a temporary branch name by clone or sync-back  *)
(* comes after a check, in the same invocation, that this very name is       *)
(* absent from the remote, and is not made when the name is present; for     *)
(* explicit, generated, regenerated and recorded names alike.                *)
C16_AsStated ==
    (Done /\ inv.cmd \in {"clone", "sync"})
    => \A i \in 1..Len(log) :
          Publishes(i) => CheckedBefore(i) /\ ~PresentAtPush(log[i].ref)

(* C17: with --temp-branch naming a branch the remote already has, clone and *)
(* sync-back exit 1; they push nothing to that name, choose no other         *)
(* temporary name, delete nothing, and the remote's branch of that name is   *)
(* still there at the same commit.                                           *)
C17_ExplicitCollisionFatal ==
    ( /\ Done /\ inv.cmd \in {"clone", "sync"}
      /\ inv.arg_temp # NoName /\ Has(pre.remote[PublishUrl], inv.arg_temp) )
    => /\ exitCode = 1
       /\ \A i \in 1..Len(log) :
             /\ log[i].op \in {"push", "push-u"} => log[i].ref # inv.arg_temp
             /\ ~Publishes(i)
             /\ log[i].op # "delete"
       /\ inv.temp_branch = inv.arg_temp
       /\ Has(remote[PublishUrl], inv.arg_temp)
       /\ remote[PublishUrl][inv.arg_temp] = pre.remote[PublishUrl][inv.arg_temp]

C17_Witness ==
    /\ SyncDone /\ inv.arg_temp = Tmp /\ Has(pre.remote[pre.stage.url], Tmp)
    /\ pre.stage.url = pre.work.url
    /\ exitCode = 1 /\ inv.err = "temp_exists"
    /\ log = <<Event("ls-remote", "stage", Tmp, TRUE)>>
    /\ remote = pre.remote

(* Sync-back generated its temporary name (no --temp-branch, none recorded)  *)
(* and found the candidate on the remote.                                    *)
CandidateCollided ==
    /\ SyncDone
    /\ inv.arg_temp = NoName /\ inv.entry.temp_branch = NoName
    /\ inv.first_temp # NoName
    /\ pre.stage.url = pre.work.url
    /\ Has(pre.remote[pre.stage.url], inv.first_temp)

(* C18: when the generated candidate is already on the remote, the name      *)
(* sync-back pushes to differs from the candidate and is absent from the     *)
(* remote when the push runs, whatever the clock reads at the regeneration.  *)
C18_AsStated ==
    CandidateCollided
    => \A i \in 1..Len(log) :
          Publishes(i) => /\ log[i].ref # inv.first_temp
                          /\ ~PresentAtPush(log[i].ref)

(* C19: a sync-back without --auto-checkout leaves the work repository on    *)
(* the branch it had checked out at entry, on every path, whether the target *)
(* branch existed locally or not.                                            *)
C19_AsStated ==
    (SyncDone /\ ~inv.auto_checkout) => work.head = pre.work.head

(* The fetch of the temporary branch into the work repository succeeded.     *)
TempFetched ==
    \E i \in 1..Len(log) : log[i] = Event("fetch", "work", inv.temp_branch, TRUE)

(* C20: when the work repository has no local branch of the target name,     *)
(* sync-back creates it at the commit it fetched from the temporary branch,  *)
(* staging's HEAD commit, whether or not the remote has a branch of the      *)
(* target name.                                                              *)
C20_AsStated ==
    (TargetKnown /\ ~WorkHadTarget /\ TempFetched /\ TransportWorking)
    => /\ Has(work.refs, inv.target_branch)
       /\ inv.created_at = StageHeadBefore

(* C21: the registry changes only in a clone or sync-back that exits 0; a    *)
(* failing invocation and a list leave it as it was; a write changes only    *)
(* the entry of the staging id operated on; no invocation removes an entry.  *)
C21_RegistryLifecycle ==
    Done =>
       /\ (registry # pre.registry \/ Did("save", "registry"))
             => /\ exitCode = 0 /\ inv.cmd \in {"clone", "sync"}
                /\ registry[StageRel].present
                /\ registry[StageRel].temp_branch = inv.temp_branch
       /\ (exitCode # 0 \/ inv.cmd = "list") => registry = pre.registry
       /\ \A id \in StagingIds \ {StageRel} : registry[id] = pre.registry[id]
       /\ \A id \in StagingIds : pre.registry[id].present => registry[id].present

C21_Witness ==
    /\ SyncDone /\ exitCode = 0
    /\ pre.registry[OtherRel] = OtherEntry /\ registry[OtherRel] = OtherEntry
    /\ pre.registry[StageRel].present
    /\ registry[StageRel] # pre.registry[StageRel]
    /\ registry[StageRel].last_temp_branch = inv.temp_branch

(* C22: a sync-back that exits 0 leaves the target branch on the shared      *)
(* remote, its tip equal to the work repository's target branch tip and to   *)
(* staging's HEAD commit, for every combination of options, a --temp-branch  *)
(* name equal to the target branch name included.                            *)
C22_AsStated ==
    (SyncDone /\ exitCode = 0)
    => /\ Has(remote[work.url], inv.target_branch)
       /\ Has(work.refs, inv.target_branch)
       /\ remote[work.url][inv.target_branch] = work.refs[inv.target_branch]
       /\ remote[work.url][inv.target_branch] = HeadCommit(stage)

(* The case of C23: a sync-back that reached the integrate step with        *)
(* --force, transport working, while the shared remote's target branch held *)
(* a commit that staging's HEAD history lacks.                              *)
ForcedOverDivergedRemote ==
    /\ SyncDone /\ inv.force /\ TransportWorking
    /\ Has(pre.remote[work.url], inv.target_branch)
    /\ ~IsAncestor(pre.remote[work.url][inv.target_branch], StageHeadBefore)

WorkResetToStaging ==
    /\ Did("reset", "work")
    /\ Has(work.refs, inv.target_branch)
    /\ work.refs[inv.target_branch] = StageHeadBefore

RemoteTargetKept ==
    /\ Has(remote[work.url], inv.target_branch)
    /\ remote[work.url][inv.target_branch]
          = pre.remote[work.url][inv.target_branch]

(* C23 as stated: sync-back --force over a shared remote whose target branch *)
(* holds commits staging lacks exits 0 with the remote's target tip equal to *)
(* staging's HEAD, and never leaves the work branch reset while it exits 1   *)
(* with the remote's target still at the diverged commit.                   *)
C23_AsStated ==
    ForcedOverDivergedRemote
    => /\ exitCode = 0
       /\ Has(remote[work.url], inv.target_branch)
       /\ remote[work.url][inv.target_branch] = StageHeadBefore
       /\ ~(WorkResetToStaging /\ exitCode = 1 /\ RemoteTargetKept)

(* C23, amended: in that case the work target branch is reset to staging's   *)
(* HEAD, the push of the target branch (not a forced push) is rejected, the  *)
(* invocation exits 1, the remote's target branch stays at the diverged      *)
(* commit, the temporary branch is deleted and the registry is not written.  *)
C23_ForcedResetPushRejected ==
    ForcedOverDivergedRemote
    => /\ WorkResetToStaging
       /\ exitCode = 1 /\ inv.err = "rejected"
       /\ log[Len(log) - 1] = Event("push", "work", inv.target_branch, FALSE)
       /\ ~WorkPushedTarget
       /\ RemoteTargetKept
       /\ DeletionSucceeded
       /\ ~Has(remote[work.url], inv.temp_branch)
       /\ registry = pre.registry

C23_Witness ==
    /\ ForcedOverDivergedRemote
    /\ WorkHadTarget
    /\ WorkTipBefore = pre.remote[work.url][inv.target_branch]
    /\ WorkTipBefore # StageHeadBefore
    /\ WorkResetToStaging
    /\ exitCode = 1 /\ inv.err = "rejected"
    /\ RemoteTargetKept

(* The temporary branches on a remote that invocations for the staging id   *)
(* created: every branch but the work branches and the one left over from   *)
(* before the tool's first invocation.                                      *)
OwnTemps(refs) == DOMAIN refs \ {Main, Dev, Leftover}

(* At most one such branch, and it is the registry entry's temp_branch.     *)
OneRecordedTemp(refs, config) ==
    /\ Cardinality(OwnTemps(refs)) <= 1
    /\ \A b \in OwnTemps(refs) :
          config[StageRel].present /\ config[StageRel].temp_branch = b

(* C24 as stated, as the step every invocation has to preserve: when the     *)
(* shared remote carried at most one temporary branch of the staging id,    *)
(* the recorded one, a clone or sync-back that exits 0 and whose deletion   *)
(* of a temporary branch, if attempted, succeeded leaves it so.             *)
C24_AsStated ==
    ( /\ Done /\ exitCode = 0 /\ inv.cmd \in {"clone", "sync"}
      /\ ~DeletionFailed
      /\ work.url = pre.work.url
      /\ OneRecordedTemp(pre.remote[work.url], pre.registry) )
    => OneRecordedTemp(remote[work.url], registry)

====
